---- MODULE Spec2Model ----
(***************************************************************************)
(* A model of elastic-property-mcp:                                        *)
(*   - ingest_properties.py, the provisioning and bulk-ingestion job       *)
(*     (specification Spec);                                               *)
(*   - elastic_mcp_server.py, the three tools of the query server          *)
(*     (specifications SpecSearch, SpecGeocode, SpecParams).               *)
(* Python values are modelled by what they are: a dict is a function from  *)
(* its keys, dict.get is Get, None is the empty tuple and a value v that   *)
(* may be None is <<v>>, a string that the code builds or scans is the     *)
(* sequence of its characters.                                             *)
(***************************************************************************)
EXTENDS Integers, Sequences, FiniteSets, TLC

(***************************************************************************)
(* Bounds.  chunk_size and thread_count are 50 and 4 in the source         *)
(* (ingest_properties.py:117, :122); they are scaled down here so that a   *)
(* bounded data set still spans several chunks and several workers.        *)
(***************************************************************************)
MaxDocs == 4
MaxRuns == 2
MaxPriorDocs == 2
chunk_size == 2
thread_count == 2

VARIABLES
    \* ---- ingest_properties.py --------------------------------------------
    pc,              \* the job's position in the script
    runs,            \* how many times the job has been started
    abort_cause,     \* why the job aborted ("" while it has not)
    writes,          \* write operations this run has issued to the store
    es,              \* the client connect_to_elasticsearch returned
    index_mappings,  \* what load_index_mapping returned
    index,           \* the store's index INDEX_NAME
    prior_index,     \* the index as create_properties_index found it
    script,          \* the store's stored script TEMPLATE_ID
    raise_on_error,  \* the bulk helper's mode for a rejected document
    data_set,        \* what load_data_set returned
    dispatched,      \* chunks the pool has handed to workers
    worker,          \* worker -> the chunk it is writing (0: idle)
    chunk_result,    \* chunk -> "pending" | "ok" | "raised"
    cchunk, citem,   \* the result the for loop consumes next
    success_count, error_count, failed_docs,
    failed_pos,      \* input position of each failure consumed, in order
    final_count,
    \* ---- elastic_mcp_server.py: search_template -------------------------
    s_pc,            \* "off" | "called" | "returned"
    s_args,          \* the optional arguments of the call
    original_query,  \* the required argument bound to the "query" key
    render_params,   \* None, or <<params>> passed to render_search_template
    search_params,   \* None, or <<params>> passed to es.search_template
    s_outcome,       \* the kind of result the tool returned
    \* ---- elastic_mcp_server.py: geocode_location ------------------------
    g_pc, location,
    first_response,  \* what the provider answers to the first request
    second_response, \* what it would answer to a second request
    requests,        \* the addresses requested, in order
    g_outcome,
    \* ---- elastic_mcp_server.py: get_properties_template_params ----------
    p_pc,
    fetchable,       \* whether es.get_script returns the stored script
    stored_source,   \* the stored script's source, as characters
    p_outcome

ingest_vars == <<pc, runs, abort_cause, writes, es, index_mappings, index,
                 prior_index, script, raise_on_error, data_set, dispatched,
                 worker, chunk_result, cchunk, citem, success_count,
                 error_count, failed_docs, failed_pos, final_count>>

search_vars == <<s_pc, s_args, original_query, render_params, search_params,
                 s_outcome>>
geocode_vars == <<g_pc, location, first_response, second_response, requests,
                  g_outcome>>
params_vars == <<p_pc, fetchable, stored_source, p_outcome>>
server_vars == <<search_vars, geocode_vars, params_vars>>

vars == <<ingest_vars, server_vars>>

(***************************************************************************)
(* Python helpers                                                          *)
(***************************************************************************)
None == <<>>
EmptyDict == <<>>
Get(d, k, default) == IF k \in DOMAIN d THEN d[k] ELSE default
Min(a, b) == IF a < b THEN a ELSE b

\* str(n) for an integer n, as characters
DigitChars == <<"0", "1", "2", "3", "4", "5", "6", "7", "8", "9">>
RECURSIVE NatToStr(_)
NatToStr(n) ==
    IF n < 10 THEN <<DigitChars[n + 1]>>
              ELSE NatToStr(n \div 10) \o <<DigitChars[(n % 10) + 1]>>
str(n) == IF n < 0 THEN <<"-">> \o NatToStr(-n) ELSE NatToStr(n)

(***************************************************************************)
(* search_template                                                         *)
(***************************************************************************)
MaxDistance == 12
DefaultDistance == 25
DefaultDistanceText == <<"2", "5">>

OptionalKeys ==
    {"latitude", "longitude", "distance", "tax", "bedrooms", "home_price_min",
     "home_price_max", "bathrooms", "square_footage", "property_features",
     "maintenance"}

\* the keys of the dict search_template builds
PlaceholderKeys == {"query"} \cup OptionalKeys

Optional(S) == {None} \cup {<<v>> : v \in S}

\* the calls with a distance of D: every optional argument is omitted (None)
\* or supplied
ArgSets(D) ==
    { ("latitude" :> la @@ "longitude" :> lo @@ "distance" :> di @@
       "tax" :> ta @@ "bedrooms" :> be @@ "home_price_min" :> pmin @@
       "home_price_max" :> pmax @@ "bathrooms" :> ba @@
       "square_footage" :> sq @@ "property_features" :> pf @@
       "maintenance" :> ma) :
         la \in Optional({0, 25}), lo \in Optional({-80}),
         di \in Optional(D), ta \in Optional({1200}),
         be \in Optional({3}), pmin \in Optional({0, 200000}),
         pmax \in Optional({400000}), ba \in Optional({2}),
         sq \in Optional({1500}), pf \in Optional({"pool"}),
         ma \in Optional({300}) }

\* `if latitude and longitude and not distance`: truthiness in place of None tests
default_distance_truthy(latitude, longitude, distance) ==
    IF /\ latitude # None /\ latitude[1] # 0
       /\ longitude # None /\ longitude[1] # 0
       /\ (distance = None \/ distance[1] = 0)
    THEN <<[t |-> "str", v |-> DefaultDistanceText]>>
    ELSE IF distance = None THEN None
         ELSE <<[t |-> "int", v |-> distance[1]]>>

\* `if distance is None`: the default injected whatever the coordinates
default_distance_always(latitude, longitude, distance) ==
    IF distance = None
    THEN <<[t |-> "str", v |-> DefaultDistanceText]>>
    ELSE <<[t |-> "int", v |-> distance[1]]>>

\* lines 194-195: distance = "25" when both coordinates are given and it is not
default_distance(latitude, longitude, distance) ==
    IF latitude # None /\ longitude # None /\ distance = None
    THEN <<[t |-> "str", v |-> DefaultDistanceText]>>
    ELSE IF distance = None THEN None
         ELSE <<[t |-> "int", v |-> distance[1]]>>

\* what an f-string puts for {x}: a str as it is, an int through str()
format(x) == IF x.t = "str" THEN x.v ELSE str(x.v)

\* line 202: f"{distance}mi" if distance is not None else None
distance_param(distance) ==
    IF distance # None THEN <<format(distance[1]) \o <<"m", "i">>>> ELSE None

\* lines 198-211
build_params(q, a, distance) ==
    "query" :> <<q>> @@
    "latitude" :> a["latitude"] @@
    "longitude" :> a["longitude"] @@
    "distance" :> distance_param(distance) @@
    "tax" :> a["tax"] @@
    "bedrooms" :> a["bedrooms"] @@
    "home_price_min" :> a["home_price_min"] @@
    "home_price_max" :> a["home_price_max"] @@
    "bathrooms" :> a["bathrooms"] @@
    "square_footage" :> a["square_footage"] @@
    "property_features" :> a["property_features"] @@
    "maintenance" :> a["maintenance"]

\* the dict passed on as it was built
keep_none(params) == params

\* line 214: {k: v for k, v in params.items() if v is not None}
remove_none(params) ==
    [k \in {j \in DOMAIN params : params[j] # None} |-> params[k]]

SearchIdle ==
    /\ s_pc = "off" /\ s_args = <<>> /\ original_query = ""
    /\ render_params = None /\ search_params = None /\ s_outcome = ""

\* the tool, from its call to its return; the store answers the render and
\* the search, or raises (lines 269-271: any exception is the error outcome);
\* of the shaping of the hits (lines 229-268) only the kind of outcome is kept
SearchTemplate ==
    /\ s_pc = "called"
    /\ LET distance == default_distance(s_args["latitude"], s_args["longitude"],
                                        s_args["distance"])
           params == remove_none(build_params(original_query, s_args, distance))
       IN \E resp \in {"render_raises", "search_raises", "no_hits", "hits"} :
            /\ render_params' = <<params>>
            /\ search_params' = IF resp = "render_raises" THEN None ELSE <<params>>
            /\ s_outcome' = CASE resp \in {"render_raises", "search_raises"} -> "error"
                              [] resp = "no_hits" -> "no_results"
                              [] OTHER -> "results"
    /\ s_pc' = "returned"
    /\ UNCHANGED <<s_args, original_query, ingest_vars, geocode_vars, params_vars>>

(***************************************************************************)
(* geocode_location                                                        *)
(***************************************************************************)
Locations == {"123 Main St, Miami", "Nowhere"}
Statuses == {"OK", "ZERO_RESULTS", "REQUEST_DENIED"}

Located == "geometry" :> ("location" :> ("lat" :> 257 @@ "lng" :> -802))
NoGeometry == "formatted_address" :> "unknown place"
GeometryNoLocation == "geometry" :> ("location_type" :> "APPROXIMATE")

ResultLists ==
    {<<>>, <<EmptyDict>>, <<NoGeometry>>, <<GeometryNoLocation>>, <<Located>>}

\* the JSON bodies the provider may answer with
Datas ==
    {("status" :> st) : st \in Statuses}
      \cup {("status" :> st @@ "results" :> rs) : st \in Statuses, rs \in ResultLists}

\* an answer: requests.get or .json() raises, or a body is returned
Responses ==
    {[raises |-> TRUE, data |-> EmptyDict]}
      \cup {[raises |-> FALSE, data |-> d] : d \in Datas}

\* f"{location}, Florida"
fallback_location(loc) == <<loc, ", Florida">>

GeoReturn(kind, reqs, data) == [kind |-> kind, requests |-> reqs, data |-> data]

\* lines 138-167: the outcome for the result kept
geocode_result(result, reqs) ==
    IF \/ DOMAIN result = {}
       \/ "geometry" \notin DOMAIN result
       \/ "location" \notin DOMAIN result["geometry"]
    THEN GeoReturn("could_not_geocode", reqs, EmptyDict)
    ELSE GeoReturn("geocoded", reqs,
                   "latitude" :> result["geometry"]["location"]["lat"] @@
                   "longitude" :> result["geometry"]["location"]["lng"])

\* lines 99-170: the tool, given what the provider answers to a first and to
\* a second request; an exception anywhere is the "Error: ..." outcome
geocode_location(loc, r1, r2) ==
    IF r1.raises THEN GeoReturn("error", <<<<loc>>>>, EmptyDict)
    ELSE IF Get(r1.data, "status", "None") # "OK"
    THEN GeoReturn("geocoding_failed", <<<<loc>>>>, EmptyDict)
    ELSE LET results == Get(r1.data, "results", <<EmptyDict>>)
         IN IF Len(results) = 0
            THEN GeoReturn("error", <<<<loc>>>>, EmptyDict)
            ELSE IF DOMAIN results[1] # {}
            THEN geocode_result(results[1], <<<<loc>>>>)
            ELSE LET reqs == <<<<loc>>, fallback_location(loc)>>
                     fallback == Get(r2.data, "results", <<EmptyDict>>)
                 IN IF r2.raises \/ Len(fallback) = 0
                    THEN GeoReturn("error", reqs, EmptyDict)
                    ELSE geocode_result(fallback[1], reqs)

GeocodeIdle ==
    /\ g_pc = "off" /\ location = ""
    /\ first_response = [raises |-> TRUE, data |-> EmptyDict]
    /\ second_response = [raises |-> TRUE, data |-> EmptyDict]
    /\ requests = <<>> /\ g_outcome = [kind |-> "", data |-> EmptyDict]

GeocodeLocation ==
    /\ g_pc = "called"
    /\ LET r == geocode_location(location, first_response, second_response)
       IN /\ requests' = r.requests
          /\ g_outcome' = [kind |-> r.kind, data |-> r.data]
    /\ g_pc' = "returned"
    /\ UNCHANGED <<location, first_response, second_response, ingest_vars,
                   search_vars, params_vars>>

(***************************************************************************)
(* get_template_script and get_properties_template_params                  *)
(***************************************************************************)
MaxFrags == 6

\* the characters of a template source; NUL stands for a character that is
\* not printable and is none of \n, \r, \t
Fragments == {<<"{", "{">>, <<"}", "}">>, <<" ">>, <<"\t">>, <<"x">>, <<"y">>, <<"NUL">>}

RECURSIVE Flatten(_)
Flatten(fs) == IF fs = <<>> THEN <<>> ELSE Head(fs) \o Flatten(Tail(fs))

\* the sources of up to max fragments a stored script may have (the store
\* holds no empty source)
StoredSources(max) ==
    {Flatten(fs) : fs \in UNION {[1..n -> Fragments] : n \in 1..max}}

\* str.isprintable, on one character
isprintable(c) == c \notin {"NUL", "\t", "\n", "\r"}

\* line 53: "".join(c for c in source if c.isprintable() or c in "\n\r\t")
sanitize(source) ==
    SelectSeq(source, LAMBDA c : isprintable(c) \/ c \in {"\n", "\r", "\t"})

\* get_template_script: None when get_script raises
get_template_script(found, source) ==
    IF found THEN <<sanitize(source)>> ELSE None

\* \s and [a-zA-Z0-9_], on the characters of Fragments
IsSpace(c) == c \in {" ", "\t", "\n", "\r"}
IsWord(c) == c \in {"x", "y", "_"}

\* the first position from i on whose character is not of the class
RECURSIVE SkipSpace(_, _)
SkipSpace(s, i) == IF i <= Len(s) /\ IsSpace(s[i]) THEN SkipSpace(s, i + 1) ELSE i
RECURSIVE SkipWord(_, _)
SkipWord(s, i) == IF i <= Len(s) /\ IsWord(s[i]) THEN SkipWord(s, i + 1) ELSE i

At(s, i, c) == i <= Len(s) /\ s[i] = c

\* a match of \{\{\s*([a-zA-Z0-9_]+)\s*\}\} starting at i: its group and the
\* position after it (next = 0: no match at i)
MatchAt(s, i) ==
    LET j == SkipSpace(s, i + 2)
        k == SkipWord(s, j)
        l == SkipSpace(s, k)
    IN IF At(s, i, "{") /\ At(s, i + 1, "{") /\ k > j /\ At(s, l, "}") /\ At(s, l + 1, "}")
       THEN [group |-> SubSeq(s, j, k - 1), next |-> l + 2]
       ELSE [group |-> <<>>, next |-> 0]

\* re.findall from position i: the groups of the non-overlapping matches,
\* leftmost first
RECURSIVE findall(_, _)
findall(s, i) ==
    IF i > Len(s) THEN <<>>
    ELSE LET m == MatchAt(s, i)
         IN IF m.next = 0 THEN findall(s, i + 1)
            ELSE <<m.group>> \o findall(s, m.next)

Range(seq) == {seq[i] : i \in DOMAIN seq}

\* list(set(xs)): the distinct elements, in one of the orders a set may give
Orders(S) ==
    {ps \in [1..Cardinality(S) -> S] : Range(ps) = S}

ParamsIdle ==
    /\ p_pc = "off" /\ fetchable = FALSE /\ stored_source = <<>>
    /\ p_outcome = [type |-> "", parameters |-> <<>>]

\* the tool, from its call to its return
GetPropertiesTemplateParams ==
    /\ p_pc = "called"
    /\ LET source == get_template_script(fetchable, stored_source)
       IN IF source = None \/ source[1] = <<>>
          THEN p_outcome' = [type |-> "text", parameters |-> <<>>]
          ELSE \E parameters \in Orders(Range(findall(source[1], 1))) :
                  p_outcome' = [type |-> "object", parameters |-> parameters]
    /\ p_pc' = "returned"
    /\ UNCHANGED <<fetchable, stored_source, ingest_vars, search_vars, geocode_vars>>

ServerIdle == SearchIdle /\ GeocodeIdle /\ ParamsIdle

(***************************************************************************)
(* The store                                                               *)
(***************************************************************************)
Schemas == {"mapping_a", "mapping_b"}
Sources == {"template_a", "template_b"}
NoIndex == [exists |-> FALSE, schema |-> "", docs |-> 0]

\* es.indices.delete
IndicesDelete(idx) == NoIndex

\* es.indices.create: a new, empty index with the body's mappings
IndicesCreate(idx, body) == [exists |-> TRUE, schema |-> body, docs |-> 0]

\* create_properties_index without the delete: the index is kept when present
CreateKeepExisting(idx, mappings) ==
    IF idx.exists THEN [idx EXCEPT !.schema = mappings]
                  ELSE IndicesCreate(idx, mappings)

\* create_properties_index: the index it leaves
create_properties_index(idx, mappings) ==
    IF idx.exists THEN IndicesCreate(IndicesDelete(idx), mappings)
                  ELSE IndicesCreate(idx, mappings)

\* the write operations create_properties_index issues
create_index_writes(idx) ==
    IF idx.exists THEN {"indices.delete", "indices.create"}
                  ELSE {"indices.create"}

(***************************************************************************)
(* The bulk helper, helpers.parallel_bulk, as parallel_bulk_load calls it  *)
(* (lines 119-124): the actions are cut into chunks of chunk_size, a pool  *)
(* of thread_count workers sends each chunk as one bulk request, and the   *)
(* results are yielded in chunk order.  The call passes no raise_on_error, *)
(* so the helper's own default decides what a rejected document does:      *)
(* with raise_on_error (the default of elasticsearch-py) the chunk raises  *)
(* BulkIndexError in place of its results; without it the chunk yields     *)
(* (False, result) for the document, which is the case the loop's else     *)
(* branch (lines 129-149) is written for.  raise_on_error is fixed by      *)
(* Init and both values are kept.                                          *)
(***************************************************************************)
DataSets == UNION {[1..n -> {"good", "bad"}] : n \in 0..MaxDocs}

\* generate_actions: the action yielded for input position p
generate_actions(ds, p) == ("_index" :> "properties" @@ "_source" :> ds[p])

NumChunks(ds) == (Len(ds) + chunk_size - 1) \div chunk_size
ChunkFirst(c) == (c - 1) * chunk_size + 1
ChunkLast(ds, c) == Min(c * chunk_size, Len(ds))
ChunkPositions(ds, c) == ChunkFirst(c)..ChunkLast(ds, c)

\* whether the store accepts the document of an action
Accepts(action) == action["_source"] = "good"

\* the store's response item for one action of a bulk request
BulkItem(action) ==
    IF Accepts(action)
    THEN ("_id" :> "auto" @@ "status" :> 201)
    ELSE ("_id" :> "auto" @@ "status" :> 400 @@
          "error" :> ("type" :> "document_parsing_exception" @@
                      "reason" :> "failed to parse"))

\* what the helper yields for one action: (ok, {op_type: item})
BulkResult(action) ==
    [ok |-> Accepts(action), result |-> ("index" :> BulkItem(action))]

ChunkRejects(ds, c) ==
    \E p \in ChunkPositions(ds, c) : ~Accepts(generate_actions(ds, p))

ChunkAccepted(ds, c) ==
    Cardinality({p \in ChunkPositions(ds, c) : Accepts(generate_actions(ds, p))})

\* the failure record the for loop builds from a result
error_info(result) ==
    [error_type   |-> Get(Get(Get(result, "index", EmptyDict), "error", EmptyDict),
                          "type", "unknown"),
     error_reason |-> Get(Get(Get(result, "index", EmptyDict), "error", EmptyDict),
                          "reason", "unknown"),
     doc_id       |-> Get(Get(result, "index", EmptyDict), "_id", "unknown"),
     line_number  |-> Get(Get(result, "index", EmptyDict), "_line_number", "unknown")]

(***************************************************************************)
(* The job: one action per statement of the script                         *)
(***************************************************************************)
PriorIndexes ==
    {NoIndex} \cup [exists : {TRUE}, schema : Schemas, docs : 0..MaxPriorDocs]

RunReset ==
    /\ abort_cause' = ""
    /\ writes' = {}
    /\ es' = "unset"
    /\ index_mappings' = ""
    /\ data_set' = <<>>
    /\ dispatched' = 0
    /\ worker' = [w \in 1..thread_count |-> 0]
    /\ chunk_result' = <<>>
    /\ cchunk' = 1
    /\ citem' = 1
    /\ success_count' = 0
    /\ error_count' = 0
    /\ failed_docs' = <<>>
    /\ failed_pos' = <<>>
    /\ final_count' = -1

IngestIdle ==
    /\ pc = "off" /\ runs = 0 /\ abort_cause = "" /\ writes = {}
    /\ es = "unset" /\ index_mappings = "" /\ index = NoIndex
    /\ prior_index = NoIndex /\ script = "" /\ raise_on_error = TRUE
    /\ data_set = <<>> /\ dispatched = 0
    /\ worker = [w \in 1..thread_count |-> 0] /\ chunk_result = <<>>
    /\ cchunk = 1 /\ citem = 1 /\ success_count = 0 /\ error_count = 0
    /\ failed_docs = <<>> /\ failed_pos = <<>> /\ final_count = -1

Init ==
    /\ pc = "config"
    /\ runs = 1
    /\ abort_cause = ""
    /\ writes = {}
    /\ es = "unset"
    /\ index_mappings = ""
    /\ index \in PriorIndexes
    /\ prior_index = NoIndex
    /\ script = ""
    /\ raise_on_error \in BOOLEAN
    /\ data_set = <<>>
    /\ dispatched = 0
    /\ worker = [w \in 1..thread_count |-> 0]
    /\ chunk_result = <<>>
    /\ cchunk = 1
    /\ citem = 1
    /\ success_count = 0
    /\ error_count = 0
    /\ failed_docs = <<>>
    /\ failed_pos = <<>>
    /\ final_count = -1
    /\ ServerIdle

Abort(cause) ==
    /\ pc' = "aborted"
    /\ abort_cause' = cause

\* ELASTIC_ENDPOINT and ELASTIC_API_KEY must be set
CheckConfig ==
    /\ pc = "config"
    /\ UNCHANGED server_vars
    /\ \E set \in BOOLEAN :
          IF set THEN pc' = "connect" /\ UNCHANGED abort_cause
                 ELSE Abort("config")
    /\ UNCHANGED <<runs, writes, es, index_mappings, index, prior_index, script,
                   raise_on_error, data_set, dispatched, worker, chunk_result,
                   cchunk, citem, success_count, error_count, failed_docs,
                   failed_pos, final_count>>

\* connect_to_elasticsearch: an exception is printed and None returned
Connect ==
    /\ pc = "connect"
    /\ UNCHANGED server_vars
    /\ \E ok \in BOOLEAN : es' = IF ok THEN "client" ELSE "None"
    /\ pc' = "load_mapping"
    /\ UNCHANGED <<runs, abort_cause, writes, index_mappings, index, prior_index,
                   script, raise_on_error, data_set, dispatched, worker,
                   chunk_result, cchunk, citem, success_count, error_count,
                   failed_docs, failed_pos, final_count>>

\* load_index_mapping: the file's content, or FileNotFoundError re-raised
LoadIndexMapping ==
    /\ pc = "load_mapping"
    /\ UNCHANGED server_vars
    /\ \E f \in Schemas \cup {"missing"} :
          IF f = "missing"
          THEN Abort("mapping_file") /\ UNCHANGED index_mappings
          ELSE pc' = "create_index" /\ index_mappings' = f /\ UNCHANGED abort_cause
    /\ UNCHANGED <<runs, writes, es, index, prior_index, script, raise_on_error,
                   data_set, dispatched, worker, chunk_result, cchunk, citem,
                   success_count, error_count, failed_docs, failed_pos,
                   final_count>>

\* create_properties_index(index_mappings); with es = None the first call on
\* it raises before anything is sent
CreatePropertiesIndex ==
    /\ pc = "create_index"
    /\ UNCHANGED server_vars
    /\ IF es = "None"
       THEN Abort("no_client") /\ UNCHANGED <<index, prior_index, writes>>
       ELSE /\ prior_index' = index
            /\ index' = create_properties_index(index, index_mappings)
            /\ writes' = writes \cup create_index_writes(index)
            /\ pc' = "load_template"
            /\ UNCHANGED abort_cause
    /\ UNCHANGED <<runs, es, index_mappings, script, raise_on_error, data_set,
                   dispatched, worker, chunk_result, cchunk, citem, success_count,
                   error_count, failed_docs, failed_pos, final_count>>

\* load_search_template, then create_search_template: a failure of put_script
\* is printed and the job goes on
LoadAndCreateSearchTemplate ==
    /\ pc = "load_template"
    /\ UNCHANGED server_vars
    /\ \E f \in Sources \cup {"missing"} :
          IF f = "missing"
          THEN Abort("template_file") /\ UNCHANGED <<script, writes>>
          ELSE /\ \E stored \in BOOLEAN : script' = IF stored THEN f ELSE script
               /\ writes' = writes \cup {"put_script"}
               /\ pc' = "load_data"
               /\ UNCHANGED abort_cause
    /\ UNCHANGED <<runs, es, index_mappings, index, prior_index, raise_on_error,
                   data_set, dispatched, worker, chunk_result, cchunk, citem,
                   success_count, error_count, failed_docs, failed_pos,
                   final_count>>

\* load_data_set, then the head of parallel_bulk_load
LoadDataSet ==
    /\ pc = "load_data"
    /\ UNCHANGED server_vars
    /\ \E found \in BOOLEAN, f \in DataSets :
          IF ~found
          THEN Abort("data_file") /\ UNCHANGED <<data_set, chunk_result>>
          ELSE /\ data_set' = f
               /\ chunk_result' = [c \in 1..NumChunks(f) |-> "pending"]
               /\ pc' = "bulk"
               /\ UNCHANGED abort_cause
    /\ UNCHANGED <<runs, writes, es, index_mappings, index, prior_index, script,
                   raise_on_error, dispatched, worker, cchunk, citem,
                   success_count, error_count, failed_docs, failed_pos,
                   final_count>>

\* a pool worker takes the next chunk of the action stream
WorkerTake(w) ==
    /\ pc = "bulk"
    /\ UNCHANGED server_vars
    /\ worker[w] = 0
    /\ dispatched < NumChunks(data_set)
    /\ dispatched' = dispatched + 1
    /\ worker' = [worker EXCEPT ![w] = dispatched + 1]
    /\ UNCHANGED <<pc, runs, abort_cause, writes, es, index_mappings, index,
                   prior_index, script, raise_on_error, data_set, chunk_result,
                   cchunk, citem, success_count, error_count, failed_docs,
                   failed_pos, final_count>>

\* a pool worker sends its chunk as one bulk request: the store indexes the
\* documents it accepts; with raise_on_error a rejected document makes the
\* chunk raise BulkIndexError instead of yielding its results
WorkerWrite(w) ==
    /\ pc = "bulk"
    /\ UNCHANGED server_vars
    /\ worker[w] # 0
    /\ index' = [index EXCEPT !.docs = @ + ChunkAccepted(data_set, worker[w])]
    /\ writes' = writes \cup {"bulk"}
    /\ chunk_result' = [chunk_result EXCEPT ![worker[w]] =
          IF raise_on_error /\ ChunkRejects(data_set, worker[w])
          THEN "raised" ELSE "ok"]
    /\ worker' = [worker EXCEPT ![w] = 0]
    /\ UNCHANGED <<pc, runs, abort_cause, es, index_mappings, prior_index,
                   script, raise_on_error, data_set, dispatched, cchunk, citem,
                   success_count, error_count, failed_docs, failed_pos,
                   final_count>>

\* one iteration of `for ok, result in helpers.parallel_bulk(...)`: results
\* come in chunk order; a chunk that raised ends the loop and the job
ConsumeResult ==
    /\ pc = "bulk"
    /\ UNCHANGED server_vars
    /\ cchunk <= NumChunks(data_set)
    /\ chunk_result[cchunk] # "pending"
    /\ IF chunk_result[cchunk] = "raised"
       THEN /\ Abort("BulkIndexError")
            /\ UNCHANGED <<cchunk, citem, success_count, error_count,
                           failed_docs, failed_pos>>
       ELSE LET p == ChunkFirst(cchunk) + citem - 1
                r == BulkResult(generate_actions(data_set, p))
            IN /\ IF r.ok
                  THEN /\ success_count' = success_count + 1
                       /\ UNCHANGED <<error_count, failed_docs, failed_pos>>
                  ELSE /\ error_count' = error_count + 1
                       /\ failed_docs' = Append(failed_docs, error_info(r.result))
                       /\ failed_pos' = Append(failed_pos, p)
                       /\ UNCHANGED success_count
               /\ IF p = ChunkLast(data_set, cchunk)
                  THEN cchunk' = cchunk + 1 /\ citem' = 1
                  ELSE citem' = citem + 1 /\ UNCHANGED cchunk
               /\ UNCHANGED <<pc, abort_cause>>
    /\ UNCHANGED <<runs, writes, es, index_mappings, index, prior_index, script,
                   raise_on_error, data_set, dispatched, worker, chunk_result,
                   final_count>>

\* the stream is exhausted: final_count = es.count(index=INDEX_NAME)["count"]
FinalCount ==
    /\ pc = "bulk"
    /\ UNCHANGED server_vars
    /\ cchunk > NumChunks(data_set)
    /\ final_count' = index.docs
    /\ pc' = "done"
    /\ UNCHANGED <<runs, abort_cause, writes, es, index_mappings, index,
                   prior_index, script, raise_on_error, data_set, dispatched,
                   worker, chunk_result, cchunk, citem, success_count,
                   error_count, failed_docs, failed_pos>>

\* the job is run again against the same store
Rerun ==
    /\ pc \in {"done", "aborted"}
    /\ UNCHANGED server_vars
    /\ runs < MaxRuns
    /\ runs' = runs + 1
    /\ pc' = "config"
    /\ RunReset
    /\ UNCHANGED <<index, prior_index, script, raise_on_error>>

Next ==
    \/ CheckConfig
    \/ Connect
    \/ LoadIndexMapping
    \/ CreatePropertiesIndex
    \/ LoadAndCreateSearchTemplate
    \/ LoadDataSet
    \/ \E w \in 1..thread_count : WorkerTake(w)
    \/ \E w \in 1..thread_count : WorkerWrite(w)
    \/ ConsumeResult
    \/ FinalCount
    \/ Rerun

Spec == Init /\ [][Next]_vars

(***************************************************************************)
(* The server's tools, each applied to the calls drawn by its Init         *)
(***************************************************************************)
SearchInit ==
    /\ IngestIdle /\ GeocodeIdle /\ ParamsIdle
    /\ s_pc = "called"
    /\ s_args \in ArgSets(-2..MaxDistance)
    /\ original_query \in {"homes with a pool"}
    /\ render_params = None /\ search_params = None /\ s_outcome = ""

SearchNext == SearchTemplate

SpecSearch == SearchInit /\ [][SearchNext]_vars

GeocodeInit ==
    /\ IngestIdle /\ SearchIdle /\ ParamsIdle
    /\ g_pc = "called"
    /\ location \in Locations
    /\ first_response \in Responses
    /\ second_response \in Responses
    /\ requests = <<>> /\ g_outcome = [kind |-> "", data |-> EmptyDict]

GeocodeNext == GeocodeLocation

SpecGeocode == GeocodeInit /\ [][GeocodeNext]_vars

ParamsInit ==
    /\ IngestIdle /\ SearchIdle /\ GeocodeIdle
    /\ p_pc = "called"
    /\ fetchable \in BOOLEAN
    /\ stored_source \in (IF fetchable THEN StoredSources(MaxFrags) ELSE {<<>>})
    /\ p_outcome = [type |-> "", parameters |-> <<>>]

ParamsNext == GetPropertiesTemplateParams

SpecParams == ParamsInit /\ [][ParamsNext]_vars

(***************************************************************************)
(* Claims about the ingestion job (specification Spec)                     *)
(***************************************************************************)
\* the run of parallel_bulk_load has ended: by its return, or by the exception
\* that left its for loop
BulkLoadEnded ==
    pc = "done" \/ (pc = "aborted" /\ abort_cause = "BulkIndexError")

\* C1: when a run of parallel_bulk_load over N records ends, also one in which
\* the store rejected documents, success_count + error_count = N
C1_EveryRecordCounted ==
    BulkLoadEnded => success_count + error_count = Len(data_set)

\* C2: a document the store rejects never aborts the run: the job never ends
\* on the bulk helper's error, short of the final count query
C2_RejectionNeverAborts ==
    ~(pc = "aborted" /\ abort_cause = "BulkIndexError")

C4_AbortBeforeAnyWrite ==
    (pc = "aborted" /\ abort_cause \in {"config", "mapping_file", "template_file"})
        => writes = {}

\* C5: whatever index create_properties_index finds (none, or one with any
\* documents and schema, also the one a previous run of the job filled), it
\* leaves the index existing, with the supplied schema and no document; from
\* then on the index holds documents of this run's data set only
C5_ReprovisionReplaces ==
    /\ pc = "load_template" =>
          index = [exists |-> TRUE, schema |-> index_mappings, docs |-> 0]
    /\ pc \in {"load_data", "bulk", "done"} =>
          /\ index.exists
          /\ index.schema = index_mappings
          /\ index.docs <= Len(data_set)

\* C5's case: the second run in a row re-provisions an index holding documents
C5_Witness ==
    /\ pc = "load_template"
    /\ runs >= 2
    /\ prior_index.exists
    /\ prior_index.docs > 0
    /\ index.docs = 0

(***************************************************************************)
(* Claims about search_template (specification SpecSearch)                 *)
(***************************************************************************)
\* the parameter sets the tool passed to the store
PassedParams == Range(render_params) \cup Range(search_params)

Supplied(k) == s_args[k] # None

\* C6: no key whose value is None, and no key of an omitted argument, is in
\* the parameters passed to render_search_template and to search_template
C6_NoNullParameter ==
    s_pc = "returned" =>
        /\ render_params # None
        /\ \A p \in PassedParams :
              /\ \A k \in DOMAIN p : p[k] # None
              /\ \A k \in OptionalKeys \ {"distance"} : ~Supplied(k) => k \notin DOMAIN p
              /\ (~Supplied("distance") /\ ~(Supplied("latitude") /\ Supplied("longitude")))
                    => "distance" \notin DOMAIN p

C6_Witness ==
    /\ s_pc = "returned"
    /\ search_params # None
    /\ ~Supplied("tax") /\ Supplied("bedrooms") /\ ~Supplied("distance")
    /\ "tax" \notin DOMAIN search_params[1]
    /\ "bedrooms" \in DOMAIN search_params[1]

\* the integer a decimal text denotes; -1 for a text that is no decimal
CharDigit(c) == CHOOSE d \in 0..9 : DigitChars[d + 1] = c
RECURSIVE ParseNat(_)
ParseNat(cs) ==
    IF Len(cs) = 1 THEN CharDigit(cs[1])
    ELSE ParseNat(SubSeq(cs, 1, Len(cs) - 1)) * 10 + CharDigit(cs[Len(cs)])
IsDecimal(cs) == Len(cs) > 0 /\ \A i \in DOMAIN cs : cs[i] \in Range(DigitChars)

\* text is the decimal of n followed by "mi"
IsMiles(text, n) ==
    LET len == Len(text)
        digits == SubSeq(text, IF n < 0 THEN 2 ELSE 1, len - 2)
    IN /\ len >= 3
       /\ SubSeq(text, len - 1, len) = <<"m", "i">>
       /\ n < 0 => text[1] = "-"
       /\ IsDecimal(digits)
       /\ ParseNat(digits) = (IF n < 0 THEN -n ELSE n)
       /\ Len(digits) > 1 => digits[1] # "0"

\* C7: with latitude and longitude supplied and no distance, the parameters
\* bind distance to "25mi"; a supplied distance d is bound as d followed by "mi"
C7_DistanceBinding ==
    s_pc = "returned" =>
        \A p \in PassedParams :
            /\ (Supplied("latitude") /\ Supplied("longitude") /\ ~Supplied("distance"))
                  => /\ "distance" \in DOMAIN p
                     /\ IsMiles(p["distance"][1], DefaultDistance)
            /\ Supplied("distance")
                  => /\ "distance" \in DOMAIN p
                     /\ IsMiles(p["distance"][1], s_args["distance"][1])

C7_Witness ==
    /\ s_pc = "returned"
    /\ Supplied("latitude") /\ s_args["latitude"][1] = 0
    /\ Supplied("longitude") /\ ~Supplied("distance")
    /\ search_params # None
    /\ search_params[1]["distance"] = << <<"2", "5", "m", "i">> >>

OnlyPriceFilters ==
    \A k \in OptionalKeys : Supplied(k) <=> k \in {"home_price_min", "home_price_max"}

\* C8, as stated: with home_price_min and home_price_max the only filters, the
\* parameters contain those two keys and no other placeholder key
C8_OnlyPriceKeys ==
    (s_pc = "returned" /\ OnlyPriceFilters) =>
        \A p \in PassedParams :
            /\ {"home_price_min", "home_price_max"} \subseteq DOMAIN p
            /\ \A k \in PlaceholderKeys \ {"home_price_min", "home_price_max"} :
                  k \notin DOMAIN p

\* C8, amended: with home_price_min and home_price_max the only filters, the
\* parameters are those two keys and the query key, which is always bound
\* (to original_query), and no other placeholder key
C8_PriceKeysAndQuery ==
    (s_pc = "returned" /\ OnlyPriceFilters) =>
        /\ render_params # None
        /\ \A p \in PassedParams :
              /\ DOMAIN p = {"query", "home_price_min", "home_price_max"}
              /\ p["query"] = <<original_query>>
              /\ p["home_price_min"] = s_args["home_price_min"]
              /\ p["home_price_max"] = s_args["home_price_max"]

C8_Witness ==
    /\ s_pc = "returned"
    /\ OnlyPriceFilters
    /\ search_params # None
    /\ s_args["home_price_min"] = <<200000>>
    /\ s_args["home_price_max"] = <<400000>>

(***************************************************************************)
(* Claims about geocode_location (specification SpecGeocode)               *)
(***************************************************************************)
\* a response that yields no location
NoLocation(r) ==
    /\ ~r.raises
    /\ LET rs == Get(r.data, "results", <<>>)
       IN \/ Len(rs) = 0
          \/ "geometry" \notin DOMAIN rs[1]
          \/ "location" \notin DOMAIN rs[1]["geometry"]

FirstFailed ==
    /\ ~first_response.raises
    /\ \/ first_response.data["status"] # "OK"
       \/ Len(Get(first_response.data, "results", <<EmptyDict>>)) = 0

\* C9: when the first response has a non-OK status or an empty results array,
\* exactly one fallback request, for the address with ", Florida" appended, is
\* issued; if that yields no location either, the outcome is "Could not
\* geocode", not an error
C9_FallbackOnce ==
    (g_pc = "returned" /\ FirstFailed) =>
        /\ requests = << <<location>>, <<location, ", Florida">> >>
        /\ NoLocation(second_response) => g_outcome.kind = "could_not_geocode"

(***************************************************************************)
(* Claims about get_properties_template_params (specification SpecParams)  *)
(***************************************************************************)
AllSpace(s, a, b) == \A n \in a..b : IsSpace(s[n])
AllWord(s, a, b) == \A n \in a..b : IsWord(s[n])

\* the identifiers that occur in s as {{ identifier }}, whitespace allowed on
\* both sides of the identifier
Placeholders(s) ==
    { SubSeq(s, j, k) : <<j, k>> \in
        { jk \in (1..Len(s)) \X (1..Len(s)) :
            /\ jk[1] <= jk[2]
            /\ AllWord(s, jk[1], jk[2])
            /\ \E i \in 1..jk[1] - 2, l \in jk[2] + 1..Len(s) - 1 :
                  /\ s[i] = "{" /\ s[i + 1] = "{"
                  /\ AllSpace(s, i + 2, jk[1] - 1)
                  /\ AllSpace(s, jk[2] + 1, l - 1)
                  /\ s[l] = "}" /\ s[l + 1] = "}" } }

NoRepeat(ps) == \A i, j \in DOMAIN ps : ps[i] = ps[j] => i = j

\* C10: for every stored source, also one without placeholders, the tool
\* returns a success whose parameters are the identifiers of the source's
\* {{ identifier }} placeholders, each once; it reports a failure only when
\* the template cannot be fetched
C10_ExactParameters ==
    p_pc = "returned" =>
        IF fetchable
        THEN /\ p_outcome.type = "object"
             /\ NoRepeat(p_outcome.parameters)
             /\ Range(p_outcome.parameters) = Placeholders(stored_source)
        ELSE p_outcome.type = "text"

====
